---- MODULE Spec2Model ----
(***************************************************************************)
(* StrictKit audit CLI (src/index.js, first program, lines 1-224) with the *)
(* sanitizer (src/utils/sanitize.js).  The project tree is the input: it   *)
(* is fixed in Init and the script then runs its five gates in program     *)
(* order, calls trackAudit, prints and exits.                              *)
(***************************************************************************)
EXTENDS Naturals, Integers, Sequences, FiniteSets, TLC

\* ------------------------------------------------------------------ bounds
MaxFiles == 2        \* candidate files in a project tree
MaxUnreadable == 1   \* files of the tree whose read fails
MaxDockerLines == 2  \* lines of a Dockerfile
MaxCalls == 3        \* calls of audit in the specification of audit alone
MaxSlashStarLen == 8 \* characters of a text of slashes and stars
MaxCommentLen == 5   \* characters of a text of comment delimiters
MaxQuoteLen == 6     \* characters of a text of quotes and backslashes
MaxLiteralLen == 4   \* characters of a text of backticks and line breaks
MaxSanCalls == 2     \* successive calls of the sanitizer functions on a text

\* ------------------------------------------------------------ text helpers
\* A text is a sequence of one-character strings.
ConsoleLogWord == <<"c","o","n","s","o","l","e",".","l","o","g">>

WordChars == {"c","o","n","s","l","e","g","x","y","_","1"}

SpaceChars == {" ", "\n", "\t"}

LineTerminators == {"\n", "\r"}

\* the backtick character, named because a TLA+ string cannot hold it
Backtick == "bt"

\* s.startsWith(w, i) with 1-based i
StartsAt(s, w, i) ==
  /\ i >= 1
  /\ i + Len(w) - 1 <= Len(s)
  /\ \A k \in 1..Len(w) : s[i + k - 1] = w[k]

\* smallest j >= from at which w occurs in s, or 0
RECURSIVE FindStart(_, _, _)
FindStart(s, w, from) ==
  IF from + Len(w) - 1 > Len(s) THEN 0
  ELSE IF StartsAt(s, w, from) THEN from
  ELSE FindStart(s, w, from + 1)

\* index of the first line terminator at or after from, or Len(s)+1
RECURSIVE LineEnd(_, _)
LineEnd(s, from) ==
  IF from > Len(s) THEN Len(s) + 1
  ELSE IF s[from] \in LineTerminators THEN from
  ELSE LineEnd(s, from + 1)

\* --------------------------------------------------------------- sanitizer
\* code.replace(/\/\*[\s\S]*?\*\//g, '')
RECURSIVE StripBlock(_, _)
StripBlock(s, i) ==
  IF i > Len(s) THEN <<>>
  ELSE IF StartsAt(s, <<"/", "*">>, i) /\ FindStart(s, <<"*", "/">>, i + 2) # 0
       THEN StripBlock(s, FindStart(s, <<"*", "/">>, i + 2) + 2)
       ELSE <<s[i]>> \o StripBlock(s, i + 1)

\* the line-comment replace with a regex that also consumes the line break
RECURSIVE StripLineEatsBreak(_, _)
StripLineEatsBreak(s, i) ==
  IF i > Len(s) THEN <<>>
  ELSE IF StartsAt(s, <<"/", "/">>, i) /\ (i = 1 \/ s[i - 1] # ":")
       THEN StripLineEatsBreak(s, LineEnd(s, i) + 1)
       ELSE <<s[i]>> \o StripLineEatsBreak(s, i + 1)

\* code.replace(/(?<!:)\/\/.*$/gm, '')
RECURSIVE StripLine(_, _)
StripLine(s, i) ==
  IF i > Len(s) THEN <<>>
  ELSE IF StartsAt(s, <<"/", "/">>, i) /\ (i = 1 \/ s[i - 1] # ":")
       THEN StripLine(s, LineEnd(s, i))
       ELSE <<s[i]>> \o StripLine(s, i + 1)

stripComments(code) == StripLine(StripBlock(code, 1), 1)

\* end of the body (?:[^q\\]|\\.)* followed by q, scanning from k:
\* the index of the closing q, or 0 when the literal is not terminated
RECURSIVE QuoteEnd(_, _, _)
QuoteEnd(s, q, k) ==
  IF k > Len(s) THEN 0
  ELSE IF s[k] = q THEN k
  ELSE IF s[k] = "\\"
       THEN IF k + 1 <= Len(s) /\ s[k + 1] \notin LineTerminators
            THEN QuoteEnd(s, q, k + 2)
            ELSE 0
       ELSE QuoteEnd(s, q, k + 1)

\* code.replace(/BT[^BT]*BT/g, '""') where BT is the backtick character
RECURSIVE StripBacktick(_, _)
StripBacktick(s, i) ==
  IF i > Len(s) THEN <<>>
  ELSE IF s[i] = Backtick /\ FindStart(s, <<Backtick>>, i + 1) # 0
       THEN <<"\"", "\"">> \o StripBacktick(s, FindStart(s, <<Backtick>>, i + 1) + 1)
       ELSE <<s[i]>> \o StripBacktick(s, i + 1)

\* code.replace(/q(?:[^q\\]|\\.)*q/g, 'qq') for q the double or single quote
RECURSIVE StripQuoted(_, _, _)
StripQuoted(s, q, i) ==
  IF i > Len(s) THEN <<>>
  ELSE IF s[i] = q /\ QuoteEnd(s, q, i + 1) # 0
       THEN <<q, q>> \o StripQuoted(s, q, QuoteEnd(s, q, i + 1) + 1)
       ELSE <<s[i]>> \o StripQuoted(s, q, i + 1)

stripStrings(code) ==
  StripQuoted(StripQuoted(StripBacktick(code, 1), "\"", 1), "'", 1)

\* end of \s*\( scanning from k: index of the "(" or 0
RECURSIVE CallParen(_, _)
CallParen(s, k) ==
  IF k > Len(s) THEN 0
  ELSE IF s[k] = "(" THEN k
  ELSE IF s[k] \in SpaceChars THEN CallParen(s, k + 1)
  ELSE 0

\* (clean.match(/\bconsole\.log\s*\(/g) || []).length
RECURSIVE CountConsoleLog(_, _)
CountConsoleLog(s, i) ==
  IF i > Len(s) THEN 0
  ELSE IF /\ StartsAt(s, ConsoleLogWord, i)
          /\ (i = 1 \/ s[i - 1] \notin WordChars)
          /\ CallParen(s, i + Len(ConsoleLogWord)) # 0
       THEN 1 + CountConsoleLog(s, CallParen(s, i + Len(ConsoleLogWord)) + 1)
       ELSE CountConsoleLog(s, i + 1)

\* ------------------------------------------------------------ project tree
\* A path is its directory segments and the dot-separated parts of its
\* base name: src/auth.test.ts is [dirs |-> <<"src">>, name |-> <<"auth","test","ts">>].
P(dirs, name) == [dirs |-> dirs, name |-> name]

PathList ==
  << P(<<>>, <<"a", "ts">>),
     P(<<>>, <<"b", "tsx">>),
     P(<<"src">>, <<"c", "js">>),
     P(<<>>, <<"auth", "test", "ts">>),
     P(<<>>, <<"auth", "spec", "js">>),
     P(<<"__tests__">>, <<"helpers", "ts">>),
     P(<<"src", "test">>, <<"x", "js">>),
     P(<<>>, <<"package-lock", "json">>),
     P(<<"utils">>, <<"u", "ts">>) >>

Paths == {PathList[i] : i \in 1..Len(PathList)}

\* What the gates look at in a file: the number of AnyKeyword nodes the
\* TypeScript compiler finds in it, the indices of the SECRET_PATTERNS its
\* content matches, and its text as the sanitizer sees it.
TextClean == <<"x">>

TextLog == ConsoleLogWord \o <<"(", "x", ")">>

TextCommented == <<"/", "/", " ">> \o ConsoleLogWord \o <<"(", ")">>

TextTwoLogs == ConsoleLogWord \o <<"(", ")", "\n">> \o ConsoleLogWord \o <<" ", "(", ")">>

NumSecretPatterns == 10

Contents ==
  { [any |-> 0, sigs |-> {},     text |-> TextCommented],
    [any |-> 1, sigs |-> {1, 3}, text |-> TextLog],
    [any |-> 2, sigs |-> {},     text |-> TextTwoLogs] }

\* A Dockerfile is a sequence of lines, a line a sequence of words, and a
\* word a sequence of atoms: punctuation marks and the runs between them.
Images ==
  { <<"node">>,
    <<"node", ":", "latest">>,
    <<"node", ":", "20">>,
    <<"node", ":", "stable">>,
    <<"node", "@", "sha256", ":", "ab12">>,
    <<"node", ":", "latest", "@", "sha256", ":", "ab12">>,
    <<"localhost", ":", "5000", "/", "node">> }

DockerLines == {<< <<"FROM">>, img >> : img \in Images} \cup {<< <<"RUN">>, <<"npm">> >>}

RECURSIVE SeqsUpTo(_, _)
SeqsUpTo(S, n) ==
  IF n = 0 THEN {<<>>}
  ELSE LET shorter == SeqsUpTo(S, n - 1)
       IN shorter \cup {Append(q, x) : q \in {r \in shorter : Len(r) = n - 1}, x \in S}


NoDockerfile == [exists |-> FALSE, readable |-> FALSE, lines |-> <<>>]

UnreadableDockerfile == [exists |-> TRUE, readable |-> FALSE, lines |-> <<>>]

Dockerfile(lines) == [exists |-> TRUE, readable |-> TRUE, lines |-> lines]

PinnedDockerfile == Dockerfile(<< << <<"FROM">>, <<"node", ":", "20">> >> >>)

LatestDockerfile == Dockerfile(<< << <<"FROM">>, <<"node", ":", "latest">> >> >>)

Dockerfiles ==
  {NoDockerfile, UnreadableDockerfile}
    \cup {Dockerfile(lines) : lines \in SeqsUpTo(DockerLines, MaxDockerLines)}

\* lockfiles of GATE 5 other than package-lock.json, which is a path above
OtherLockNames == {"yarn.lock", "pnpm-lock.yaml", "bun.lockb"}

PackageLock == P(<<>>, <<"package-lock", "json">>)

Gates == <<"NO_ANY", "SECRETS", "DOCKER", "CONSOLE", "LOCKFILE">>

GateSet == {Gates[i] : i \in 1..Len(Gates)}

VARIABLES
  files,        \* project tree: function from the paths present to their content
  unreadable,   \* paths whose readFileSync throws (EACCES, EISDIR)
  dockerfile,   \* <root>/Dockerfile: whether it exists, can be read, and its lines
  lockfiles,    \* names of OtherLockNames present at the project root
  faults,       \* gates whose try block raises an unexpected exception
  isJson,       \* args.includes('--json')
  telemetryOff, \* process.env.STRICTKIT_TELEMETRY === 'off'
  pc,           \* position of the script
  jsonReport,   \* the report object built by audit
  stdout,       \* the human lines printed
  emitted,      \* the JSON reports printed
  failed,       \* const failed of the verdict section
  telemetry,    \* state of the telemetry request
  home,         \* ~/.strictkit and its anon-id file, and the fs calls made on them
  timer,        \* the pending setTimeout: the exit code it will exit with (its
                \* delay in the doctrine-based audit), or -1 when none is pending
  exitCode,     \* exit code of the process, -1 while it runs
  code,         \* the text a sanitizer function is called on
  calls,        \* calls of the sanitizer functions so far: [fn, arg, ret]
  auditResults, \* results pushed by addResult in the doctrine-based audit
  violations    \* its count of FAIL and WARN results, -1 before the final report

vars == <<files, unreadable, dockerfile, lockfiles, faults, isJson, telemetryOff,
          pc, jsonReport, stdout, emitted, failed, telemetry, home, timer, exitCode,
          code, calls, auditResults, violations>>

sanitizer == <<code, calls>>

doctrine == <<auditResults, violations>>

inputs == <<files, unreadable, dockerfile, lockfiles, faults, isJson, telemetryOff>>

\* -------------------------------------------------------------------- glob
\* '**/*.{...}' with the default dot:false: the last part of the base name
\* is one of the extensions and something precedes it.
HasExt(p, exts) == Len(p.name) >= 2 /\ p.name[Len(p.name)] \in exts

\* IGNORE_PATTERNS: patterns without a leading '**/' are anchored at the root.
IgnoredByDefault(p) ==
  \/ /\ p.dirs # <<>>
     /\ p.dirs[1] \in {"node_modules", "dist", ".next", "coverage", ".git", "utils"}
  \/ /\ p.dirs = <<>>
     /\ Len(p.name) >= 3
     /\ p.name[Len(p.name) - 1] = "min"
     /\ p.name[Len(p.name)] = "js"
  \/ /\ p.dirs = <<>>
     /\ p.name = <<"index", "js">>

\* '**/*.test.*', '**/*.spec.*', '**/test/**', '**/__tests__/**'
IgnoredAsTest(p) ==
  \/ \E i \in 2..(Len(p.name) - 1) : p.name[i] \in {"test", "spec"}
  \/ \E i \in 1..Len(p.dirs) : p.dirs[i] \in {"test", "__tests__"}

\* globSync(pattern, { cwd: PROJECT_PATH, ignore }), in the order of PathList
globSync(exts, ignoreTests) ==
  SelectSeq(PathList, LAMBDA p :
    /\ p \in DOMAIN files
    /\ HasExt(p, exts)
    /\ ~IgnoredByDefault(p)
    /\ (ignoreTests => ~IgnoredAsTest(p)))

\* ------------------------------------------------------------------- audit
EmptyReport ==
  [summary |-> [total |-> 0, passed |-> 0, failed |-> 0, warnings |-> 0],
   results |-> <<>>]

Finding(gate, status, message) == [gate |-> gate, status |-> status, message |-> message]

\* a message: its fixed text and the values interpolated into it
Msg(text) == [text |-> text, n |-> 0, m |-> 0, image |-> <<>>]

MsgCounts(text, n, m) == [text |-> text, n |-> n, m |-> m, image |-> <<>>]

MsgImage(text, image) == [text |-> text, n |-> 0, m |-> 0, image |-> image]

\* audit with summary.failed assigned where it is incremented
auditAssignsFailed(report, gate, status, msg) ==
  LET pushed  == Append(report.results, Finding(gate, status, msg))
      counted == [report.summary EXCEPT !.total = @ + 1, !.failed = 0]
  IN [results |-> pushed,
      summary |-> IF status = "FAIL" THEN [counted EXCEPT !.failed = 1]
                  ELSE IF status = "PASS" THEN [counted EXCEPT !.passed = @ + 1]
                  ELSE [counted EXCEPT !.warnings = @ + 1]]

\* audit without its final else branch: a WARN is pushed but not counted
auditDropsWarn(report, gate, status, msg) ==
  LET pushed  == Append(report.results, Finding(gate, status, msg))
      counted == [report.summary EXCEPT !.total = @ + 1]
  IN [results |-> pushed,
      summary |-> IF status = "FAIL" THEN [counted EXCEPT !.failed = @ + 1]
                  ELSE IF status = "PASS" THEN [counted EXCEPT !.passed = @ + 1]
                  ELSE counted]

\* audit with results.unshift in place of results.push
auditUnshift(report, gate, status, msg) ==
  LET pushed  == <<Finding(gate, status, msg)>> \o report.results
      counted == [report.summary EXCEPT !.total = @ + 1]
  IN [results |-> pushed,
      summary |-> IF status = "FAIL" THEN [counted EXCEPT !.failed = @ + 1]
                  ELSE IF status = "PASS" THEN [counted EXCEPT !.passed = @ + 1]
                  ELSE [counted EXCEPT !.warnings = @ + 1]]

\* function audit, part 1: the JSON report
audit(report, gate, status, msg) ==
  LET pushed  == Append(report.results, Finding(gate, status, msg))
      counted == [report.summary EXCEPT !.total = @ + 1]
  IN [results |-> pushed,
      summary |-> IF status = "FAIL" THEN [counted EXCEPT !.failed = @ + 1]
                  ELSE IF status = "PASS" THEN [counted EXCEPT !.passed = @ + 1]
                  ELSE [counted EXCEPT !.warnings = @ + 1]]

\* function audit, part 2: the human line
auditPrint(out, gate, status, msg) ==
  IF isJson THEN out
  ELSE Append(out, [icon |-> IF status = "FAIL" THEN "cross"
                             ELSE IF status = "WARN" THEN "warning" ELSE "check",
                    gate |-> gate, text |-> msg.text])

\* ------------------------------------------------------------------- gates
countAnyTypes(f, content) == content.any

\* the forEach of GATE 1 with anyCount++ in place of anyCount += fileCount
RECURSIVE ScanAnyCountsFiles(_, _)
ScanAnyCountsFiles(fs, acc) ==
  IF fs = <<>> THEN acc
  ELSE IF Head(fs) \in unreadable THEN [acc EXCEPT !.thrown = TRUE]
  ELSE LET fileCount == countAnyTypes(Head(fs), files[Head(fs)])
       IN ScanAnyCountsFiles(Tail(fs),
                  IF fileCount > 0
                  THEN [acc EXCEPT !.anyCount = @ + 1,
                                   !.anyFiles = Append(@, Head(fs))]
                  ELSE acc)

\* tsFiles.forEach of GATE 1; thrown when a readFileSync throws
RECURSIVE ScanAny(_, _)
ScanAny(fs, acc) ==
  IF fs = <<>> THEN acc
  ELSE IF Head(fs) \in unreadable THEN [acc EXCEPT !.thrown = TRUE]
  ELSE LET fileCount == countAnyTypes(Head(fs), files[Head(fs)])
       IN ScanAny(Tail(fs),
                  IF fileCount > 0
                  THEN [acc EXCEPT !.anyCount = @ + fileCount,
                                   !.anyFiles = Append(@, Head(fs))]
                  ELSE acc)

tsFiles == globSync({"ts", "tsx"}, FALSE)

NoAnyScan == ScanAny(tsFiles, [thrown |-> FALSE, anyCount |-> 0, anyFiles |-> <<>>])

\* try body of GATE 1
NoAnyBody ==
  IF NoAnyScan.anyCount > 0
  THEN Finding("NO_ANY", "FAIL",
               MsgCounts("Found n usages of 'any' in m file(s).",
                         NoAnyScan.anyCount, Len(NoAnyScan.anyFiles)))
  ELSE IF Len(tsFiles) = 0
  THEN Finding("NO_ANY", "WARN", Msg("No TypeScript files found."))
  ELSE Finding("NO_ANY", "PASS",
               MsgCounts("Strict typing enforced across n files.", Len(tsFiles), 0))

NoAnyThrows == "NO_ANY" \in faults \/ NoAnyScan.thrown

NoAnyFinding ==
  IF NoAnyThrows
  THEN Finding("NO_ANY", "WARN", Msg("Could not complete TypeScript scan."))
  ELSE NoAnyBody

\* for (const pattern of SECRET_PATTERNS) { if (pattern.test(content)) ... break }
\* number of pushes of the file, trying the patterns from index k
\* the pattern loop without its break: one push per matching pattern
RECURSIVE PatternPushesNoBreak(_, _)
PatternPushesNoBreak(content, k) ==
  IF k > NumSecretPatterns THEN 0
  ELSE (IF k \in content.sigs THEN 1 ELSE 0) + PatternPushesNoBreak(content, k + 1)

RECURSIVE PatternPushes(_, _)
PatternPushes(content, k) ==
  IF k > NumSecretPatterns THEN 0
  ELSE IF k \in content.sigs THEN 1
  ELSE PatternPushes(content, k + 1)

\* codeFiles.forEach of GATE 2
RECURSIVE ScanSecrets(_, _)
ScanSecrets(fs, acc) ==
  IF fs = <<>> THEN acc
  ELSE IF Head(fs) \in unreadable THEN [acc EXCEPT !.thrown = TRUE]
  ELSE ScanSecrets(Tail(fs),
         [acc EXCEPT !.secretsFound =
            @ \o [i \in 1..PatternPushes(files[Head(fs)], 1) |-> Head(fs)]])

codeFiles == globSync({"ts", "tsx", "js", "jsx", "json"}, TRUE)

SecretsScan == ScanSecrets(codeFiles, [thrown |-> FALSE, secretsFound |-> <<>>])

\* try body of GATE 2
SecretsBody ==
  IF Len(SecretsScan.secretsFound) > 0
  THEN Finding("SECRETS", "FAIL",
               MsgCounts("Secrets detected in n file(s).",
                         Len(SecretsScan.secretsFound), 0))
  ELSE Finding("SECRETS", "PASS", Msg("No hardcoded secrets detected."))

SecretsThrows == "SECRETS" \in faults \/ SecretsScan.thrown

SecretsFinding ==
  IF SecretsThrows THEN Finding("SECRETS", "WARN", Msg("Scan failed."))
  ELSE SecretsBody

\* dockerfile.match(/^FROM\s+([^\s]+)/gm) and the image of each match; every
\* FROM line of the Dockerfiles considered carries its image on the same line
fromImages(lines) ==
  LET fromLines == SelectSeq(lines, LAMBDA l : Len(l) >= 2 /\ l[1] = <<"FROM">>)
  IN [i \in 1..Len(fromLines) |-> fromLines[i][2]]

\* the test with image.includes(':latest') in place of image.endsWith(':latest')
IsWeakIncludesLatest(image) ==
  \/ ~(\E i \in 1..Len(image) : image[i] = ":")
  \/ \E i \in 1..(Len(image) - 1) : image[i] = ":" /\ image[i + 1] = "latest"

\* !image.includes(':') || image.endsWith(':latest')
IsWeak(image) ==
  \/ ~(\E i \in 1..Len(image) : image[i] = ":")
  \/ /\ Len(image) >= 2
     /\ image[Len(image) - 1] = ":"
     /\ image[Len(image)] = "latest"

weakTags(lines) == SelectSeq(fromImages(lines), IsWeak)

\* try body of GATE 3 (for a Dockerfile that can be read)
DockerBody ==
  IF dockerfile.exists
  THEN IF Len(weakTags(dockerfile.lines)) > 0
       THEN Finding("DOCKER", "FAIL", MsgImage("Unpinned image: x.", weakTags(dockerfile.lines)[1]))
       ELSE Finding("DOCKER", "PASS", Msg("Docker images pinned."))
  ELSE Finding("DOCKER", "WARN", Msg("No Dockerfile found."))

DockerThrows == "DOCKER" \in faults \/ (dockerfile.exists /\ ~dockerfile.readable)

DockerFinding ==
  IF DockerThrows THEN Finding("DOCKER", "WARN", Msg("Scan failed."))
  ELSE DockerBody

\* jsFiles.forEach of GATE 4 with logCount += 1 for a file with matches
RECURSIVE ScanConsoleCountsFiles(_, _)
ScanConsoleCountsFiles(fs, acc) ==
  IF fs = <<>> THEN acc
  ELSE IF Head(fs) \in unreadable THEN [acc EXCEPT !.thrown = TRUE]
  ELSE LET clean   == stripStrings(stripComments(files[Head(fs)].text))
           matches == CountConsoleLog(clean, 1)
       IN ScanConsoleCountsFiles(Tail(fs),
                      IF matches > 0
                      THEN [acc EXCEPT !.logCount = @ + 1,
                                       !.logFiles = Append(@, Head(fs))]
                      ELSE acc)

\* jsFiles.forEach of GATE 4
RECURSIVE ScanConsole(_, _)
ScanConsole(fs, acc) ==
  IF fs = <<>> THEN acc
  ELSE IF Head(fs) \in unreadable THEN [acc EXCEPT !.thrown = TRUE]
  ELSE LET clean   == stripStrings(stripComments(files[Head(fs)].text))
           matches == CountConsoleLog(clean, 1)
       IN ScanConsole(Tail(fs),
                      IF matches > 0
                      THEN [acc EXCEPT !.logCount = @ + matches,
                                       !.logFiles = Append(@, Head(fs))]
                      ELSE acc)

jsFiles == globSync({"ts", "tsx", "js", "jsx"}, TRUE)

ConsoleScan == ScanConsole(jsFiles, [thrown |-> FALSE, logCount |-> 0, logFiles |-> <<>>])

\* try body of GATE 4
ConsoleBody ==
  IF ConsoleScan.logCount > 0
  THEN Finding("CONSOLE", "FAIL",
               MsgCounts("Found n console.log() in m file(s).",
                         ConsoleScan.logCount, Len(ConsoleScan.logFiles)))
  ELSE Finding("CONSOLE", "PASS", Msg("No console pollution detected."))

ConsoleThrows == "CONSOLE" \in faults \/ ConsoleScan.thrown

\* GATE 4 with a catch block that reports FAIL
ConsoleFindingCatchFails ==
  IF ConsoleThrows THEN Finding("CONSOLE", "FAIL", Msg("Scan failed."))
  ELSE ConsoleBody

ConsoleFinding ==
  IF ConsoleThrows THEN Finding("CONSOLE", "WARN", Msg("Scan failed."))
  ELSE ConsoleBody

\* lockfiles.every in place of lockfiles.some
hasLockEvery == PackageLock \in DOMAIN files /\ lockfiles = OtherLockNames

\* lockfiles.some(f => fs.existsSync(path.join(PROJECT_PATH, f)))
hasLock == PackageLock \in DOMAIN files \/ lockfiles # {}

\* try body of GATE 5
LockfileBody ==
  IF hasLock THEN Finding("LOCKFILE", "PASS", Msg("Dependency tree frozen."))
  ELSE Finding("LOCKFILE", "FAIL", Msg("No lockfile found."))

LockfileThrows == "LOCKFILE" \in faults

LockfileFinding ==
  IF LockfileThrows THEN Finding("LOCKFILE", "WARN", Msg("Scan failed."))
  ELSE LockfileBody

\* --------------------------------------------------------------- telemetry
\* ~/.strictkit (CONFIG_DIR) and its anon-id file (ID_FILE): whether each
\* exists, the text of the file, the fs call on them that throws on this
\* machine, and the fs calls made on them so far
Home(dir, idFile, content, fault) ==
  [dir |-> dir, idFile |-> idFile, content |-> content, fault |-> fault, ops |-> <<>>]

FsFaults == {"none", "mkdirSync", "readFileSync", "writeFileSync"}

\* texts an anon-id file may hold
IdTexts == {<<"a">>, <<" ", "a", "\n">>, <<>>}

\* values of generateUUID()
UUIDs == {<<"b">>, <<"c">>}

Homes ==
  {Home(FALSE, FALSE, <<>>, f) : f \in FsFaults}
    \cup {Home(TRUE, FALSE, <<>>, f) : f \in FsFaults}
    \cup {Home(TRUE, TRUE, t, f) : t \in IdTexts, f \in FsFaults}

\* a machine on which an anonymous id was stored by an earlier run
UsedHome == Home(TRUE, TRUE, <<"a">>, "none")

Did(h, op) == [h EXCEPT !.ops = Append(@, op)]

\* String.prototype.trim
RECURSIVE trim(_)
trim(s) ==
  IF s = <<>> THEN s
  ELSE IF Head(s) \in SpaceChars \cup LineTerminators THEN trim(Tail(s))
  ELSE IF s[Len(s)] \in SpaceChars \cup LineTerminators THEN trim(SubSeq(s, 1, Len(s) - 1))
  ELSE s

UnknownMachine == <<"unknown-machine">>

\* getAnonymousId(): the id it returns and the home directory it leaves;
\* uuid is the value generateUUID() would give
getAnonymousId(h, uuid) ==
  LET h1 == Did(h, "existsSync CONFIG_DIR")
      h2 == IF h.dir THEN h1 ELSE [Did(h1, "mkdirSync CONFIG_DIR") EXCEPT !.dir = TRUE]
      h3 == Did(h2, "existsSync ID_FILE")
  IN IF ~h.dir /\ h.fault = "mkdirSync"
     THEN [id |-> UnknownMachine, home |-> Did(h1, "mkdirSync CONFIG_DIR")]
     ELSE IF h.idFile
     THEN [id   |-> IF h.fault = "readFileSync" THEN UnknownMachine ELSE trim(h.content),
           home |-> Did(h3, "readFileSync ID_FILE")]
     ELSE IF h.fault = "writeFileSync"
     THEN [id |-> UnknownMachine, home |-> Did(h3, "writeFileSync ID_FILE")]
     ELSE [id   |-> uuid,
           home |-> [Did(h3, "writeFileSync ID_FILE") EXCEPT !.idFile = TRUE, !.content = uuid]]

\* the request of a process that has not called trackAudit
NoRequest == [state |-> "idle", result |-> "", rulesBroken |-> <<>>, anonymousId |-> <<>>]

\* -------------------------------------------------------------------- Init
\* project trees of at most MaxFiles files
FileTrees ==
  UNION {[D -> Contents] : D \in {S \in SUBSET Paths : Cardinality(S) <= MaxFiles}}

EmptyTree == [p \in {} |-> TextClean]

SmallTrees ==
  {EmptyTree, [p \in {PathList[1]} |-> [any |-> 1, sigs |-> {1, 3}, text |-> TextLog]]}

UpTo(S, n) == {T \in SUBSET S : Cardinality(T) <= n}

\* the inputs vary along one axis at a time, the others taken from small sets
InitTrees ==
  /\ files \in FileTrees
  /\ unreadable \in UpTo(DOMAIN files, MaxUnreadable)
  /\ dockerfile = NoDockerfile
  /\ lockfiles = {}
  /\ faults = {}
  /\ telemetryOff = TRUE

InitDockerfiles ==
  /\ files = EmptyTree
  /\ unreadable = {}
  /\ dockerfile \in Dockerfiles
  /\ lockfiles \in {{}, {"yarn.lock"}}
  /\ faults = {}
  /\ telemetryOff \in BOOLEAN

InitRuns ==
  /\ files \in SmallTrees
  /\ unreadable = {}
  /\ dockerfile \in {NoDockerfile, PinnedDockerfile, LatestDockerfile}
  /\ lockfiles \in SUBSET OtherLockNames
  /\ faults \in SUBSET GateSet
  /\ telemetryOff \in BOOLEAN

\* every combination of the four lockfile names at the project root
InitLockfiles ==
  /\ files \in {EmptyTree, [p \in {PackageLock} |-> [any |-> 0, sigs |-> {}, text |-> TextClean]]}
  /\ unreadable = {}
  /\ dockerfile = NoDockerfile
  /\ lockfiles \in SUBSET OtherLockNames
  /\ faults = {}
  /\ telemetryOff = TRUE

InitScript ==
  /\ isJson \in BOOLEAN
  /\ pc = "gate1"
  /\ jsonReport = EmptyReport
  /\ stdout = <<>>
  /\ emitted = <<>>
  /\ failed = -1
  /\ telemetry = NoRequest
  /\ home = UsedHome
  /\ timer = -1
  /\ exitCode = -1
  /\ code = <<>>
  /\ calls = <<>>
  /\ auditResults = <<>>
  /\ violations = -1

Init == (InitTrees \/ InitDockerfiles \/ InitRuns \/ InitLockfiles) /\ InitScript

\* ----------------------------------------------------------------- actions
\* one gate: its try/catch block ends in exactly one call of audit
RunGate(f, next) ==
  /\ jsonReport' = audit(jsonReport, f.gate, f.status, f.message)
  /\ stdout' = auditPrint(stdout, f.gate, f.status, f.message)
  /\ pc' = next
  /\ UNCHANGED <<inputs, home, sanitizer, doctrine, emitted, failed, telemetry, timer, exitCode>>

GateNoAny == pc = "gate1" /\ RunGate(NoAnyFinding, "gate2")

GateSecrets == pc = "gate2" /\ RunGate(SecretsFinding, "gate3")

GateDocker == pc = "gate3" /\ RunGate(DockerFinding, "gate4")

GateConsole == pc = "gate4" /\ RunGate(ConsoleFinding, "gate5")

GateLockfile == pc = "gate5" /\ RunGate(LockfileFinding, "verdict")

\* jsonReport.results.filter(r => r.status === 'FAIL').map(r => r.gate)
brokenRuleIds ==
  LET fails == SelectSeq(jsonReport.results, LAMBDA r : r.status = "FAIL")
  IN [i \in 1..Len(fails) |-> fails[i].gate]

\* trackAudit with getAnonymousId() called ahead of the opt-out test
trackAuditIdFirst(result, ruleIds, uuid) ==
  LET anon == getAnonymousId(home, uuid)
  IN IF telemetryOff
     THEN [request |-> [NoRequest EXCEPT !.state = "off"], home |-> anon.home]
     ELSE [request |-> [state |-> "pending", result |-> result, rulesBroken |-> ruleIds,
                        anonymousId |-> anon.id],
           home    |-> anon.home]

\* trackAudit(result, ruleIds): it returns at once when opted out, else it
\* gets the anonymous id and sends the request; the request it leaves
\* (state "off" when none was made) and the home directory it leaves
trackAudit(result, ruleIds, uuid) ==
  IF telemetryOff
  THEN [request |-> [NoRequest EXCEPT !.state = "off"], home |-> home]
  ELSE LET anon == getAnonymousId(home, uuid)
       IN [request |-> [state |-> "pending", result |-> result, rulesBroken |-> ruleIds,
                        anonymousId |-> anon.id],
           home    |-> anon.home]

Verdict ==
  /\ pc = "verdict"
  /\ failed' = jsonReport.summary.failed
  /\ \E uuid \in UUIDs :
        LET sent == trackAudit(IF jsonReport.summary.failed > 0 THEN "failed" ELSE "passed",
                               brokenRuleIds, uuid)
        IN telemetry' = sent.request /\ home' = sent.home
  /\ pc' = "output"
  /\ UNCHANGED <<inputs, sanitizer, doctrine, jsonReport, stdout, emitted, timer, exitCode>>

\* an exit code that is 1 only from the second failure on
ExitCodeOffByOne(f) == IF f > 1 THEN 1 ELSE 0

\* process.exit(failed > 0 ? 1 : 0) and the codes of the two setTimeout calls
ExitCodeFor(f) == IF f > 0 THEN 1 ELSE 0

\* success computed as failed > 0
successInverted(f) == f > 0

\* jsonReport.success = failed === 0
success(f) == f = 0

Banner(text) == [icon |-> "banner", gate |-> "", text |-> text]

FinalOutput ==
  /\ pc = "output"
  /\ IF isJson
     THEN /\ emitted' = Append(emitted,
                 [summary |-> jsonReport.summary,
                  results |-> jsonReport.results,
                  success |-> success(failed)])
          /\ exitCode' = ExitCodeFor(failed)
          /\ pc' = "exited"
          /\ UNCHANGED <<stdout, timer>>
     ELSE /\ stdout' = Append(stdout,
                 Banner(IF failed > 0 THEN "AUDIT FAILED" ELSE "AUDIT PASSED"))
          /\ timer' = ExitCodeFor(failed)
          /\ pc' = "eventloop"
          /\ UNCHANGED <<emitted, exitCode>>
  /\ UNCHANGED <<inputs, home, sanitizer, doctrine, jsonReport, failed, telemetry>>

\* the 300 ms timer of the human mode: () => process.exit(code)
TimerExit ==
  /\ pc = "eventloop"
  /\ timer # -1
  /\ exitCode' = timer
  /\ timer' = -1
  /\ pc' = "exited"
  /\ UNCHANGED <<inputs, home, sanitizer, doctrine, jsonReport, stdout, emitted, failed, telemetry>>

\* the 'error' handler of the request ending the process with code 1
TelemetrySettlesErrorExits ==
  /\ pc = "eventloop"
  /\ telemetry.state = "pending"
  /\ \E outcome \in {"responded", "error"} :
        /\ telemetry' = [telemetry EXCEPT !.state = outcome]
        /\ IF outcome = "error"
           THEN exitCode' = 1 /\ timer' = -1 /\ pc' = "exited"
           ELSE UNCHANGED <<exitCode, timer, pc>>
  /\ UNCHANGED <<inputs, home, sanitizer, doctrine, jsonReport, stdout, emitted, failed>>

\* the response or the 'error' event of the request, while the loop still runs
TelemetrySettles ==
  /\ pc = "eventloop"
  /\ telemetry.state = "pending"
  /\ \E outcome \in {"responded", "error"} :
        telemetry' = [telemetry EXCEPT !.state = outcome]
  /\ UNCHANGED <<inputs, home, sanitizer, doctrine, pc, jsonReport, stdout, emitted, failed, timer, exitCode>>

Next ==
  \/ GateNoAny
  \/ GateSecrets
  \/ GateDocker
  \/ GateConsole
  \/ GateLockfile
  \/ Verdict
  \/ FinalOutput
  \/ TimerExit
  \/ TelemetrySettles

Spec == Init /\ [][Next]_vars

\* the script runs to completion and a pending timer fires
Script ==
  GateNoAny \/ GateSecrets \/ GateDocker \/ GateConsole \/ GateLockfile
    \/ Verdict \/ FinalOutput

\* the runs of the specification with fairness
LiveInputs ==
  /\ files \in {EmptyTree, [p \in {PathList[1]} |-> [any |-> 1, sigs |-> {}, text |-> TextClean]]}
  /\ unreadable = {}
  /\ dockerfile \in {NoDockerfile, PinnedDockerfile}
  /\ lockfiles \in {{}, {"yarn.lock"}}
  /\ faults \in {{}, {"LOCKFILE"}}
  /\ telemetryOff \in BOOLEAN

InitLive == LiveInputs /\ InitScript

LiveSpec == InitLive /\ [][Next]_vars /\ WF_vars(Script) /\ WF_vars(TimerExit)

\* the audit function alone, called with any gate and status
Statuses == {"PASS", "FAIL", "WARN"}

InitAudit ==
  /\ files = EmptyTree
  /\ unreadable = {}
  /\ dockerfile = NoDockerfile
  /\ lockfiles = {}
  /\ faults = {}
  /\ telemetryOff = TRUE
  /\ InitScript

AuditCall ==
  /\ Len(jsonReport.results) < MaxCalls
  /\ \E gate \in GateSet, status \in Statuses :
        /\ jsonReport' = audit(jsonReport, gate, status, Msg("msg"))
        /\ stdout' = auditPrint(stdout, gate, status, Msg("msg"))
  /\ UNCHANGED <<inputs, home, sanitizer, doctrine, pc, emitted, failed, telemetry, timer, exitCode>>

AuditSpec == InitAudit /\ [][AuditCall]_vars

\* -------------------------------------- the five gates taken in any order
GateFinding(g) ==
  CASE g = "NO_ANY"   -> NoAnyFinding
    [] g = "SECRETS"  -> SecretsFinding
    [] g = "DOCKER"   -> DockerFinding
    [] g = "CONSOLE"  -> ConsoleFinding
    [] g = "LOCKFILE" -> LockfileFinding

\* the gates whose try/catch block has run
evaluated == {jsonReport.results[i].gate : i \in 1..Len(jsonReport.results)}

OrderInputs ==
  /\ files \in SmallTrees
  /\ unreadable = {}
  /\ dockerfile \in {NoDockerfile, LatestDockerfile}
  /\ lockfiles \in {{}, {"yarn.lock"}}
  /\ faults \in {{}, {"SECRETS"}}
  /\ telemetryOff = TRUE

InitAnyOrder == OrderInputs /\ InitScript

\* a gate block that has not run yet runs next, whatever its place in the file
EvalGate(g) ==
  /\ pc = "gate1"
  /\ g \notin evaluated
  /\ RunGate(GateFinding(g),
             IF Cardinality(evaluated) = Len(Gates) - 1 THEN "verdict" ELSE "gate1")

EvalNoAny == EvalGate("NO_ANY")

EvalSecrets == EvalGate("SECRETS")

EvalDocker == EvalGate("DOCKER")

EvalConsole == EvalGate("CONSOLE")

EvalLockfile == EvalGate("LOCKFILE")

AnyOrderNext ==
  \/ EvalNoAny
  \/ EvalSecrets
  \/ EvalDocker
  \/ EvalConsole
  \/ EvalLockfile
  \/ Verdict
  \/ FinalOutput
  \/ TimerExit

AnyOrderSpec == InitAnyOrder /\ [][AnyOrderNext]_vars

\* ------------------------- the doctrine-based audit (src/index.js, 225-433)
DOCTRINE ==
  [INTEGRITY |-> [id |-> "SK-INT-001", severity |-> "FAIL"],
   SECURITY  |-> [id |-> "SK-SEC-001", severity |-> "WARN"],
   INFRA     |-> [id |-> "SK-INF-001", severity |-> "FAIL"]]

\* addResult(rule, status, message)
addResult(results, rule, status, message) ==
  Append(results,
         [id |-> DOCTRINE[rule].id, rule |-> rule, status |-> status, message |-> message])

\* glob.sync(pattern, { cwd: projectPath, ignore }): the ignore patterns name
\* directories and files at the root of the project
globDoctrine(exts, ignoredDirs, ignoredFiles) ==
  SelectSeq(PathList, LAMBDA p :
    /\ p \in DOMAIN files
    /\ HasExt(p, exts)
    /\ ~(p.dirs # <<>> /\ p.dirs[1] \in ignoredDirs)
    /\ p \notin ignoredFiles)

\* matches of the six 'any' patterns in the content with its comments removed,
\* taken to be the explicit any usages of the file
anyMatches(content) == content.any

\* tsFiles.forEach of CHECK 1: a file whose read throws is skipped
RECURSIVE ScanIntegrity(_, _)
ScanIntegrity(fs, acc) ==
  IF fs = <<>> THEN acc
  ELSE IF Head(fs) \in unreadable THEN ScanIntegrity(Tail(fs), acc)
  ELSE LET fileMatches == anyMatches(files[Head(fs)])
       IN ScanIntegrity(Tail(fs),
                        IF fileMatches > 0
                        THEN [anyCount |-> acc.anyCount + fileMatches,
                              anyFiles |-> acc.anyFiles + 1]
                        ELSE acc)

IntegrityScan ==
  ScanIntegrity(globDoctrine({"ts", "tsx"}, {"node_modules", "dist", "build"}, {}),
                [anyCount |-> 0, anyFiles |-> 0])

IntegrityResult(results) ==
  IF IntegrityScan.anyCount > 0
  THEN addResult(results, "INTEGRITY", "FAIL",
                 MsgCounts("n explicit 'any' types found in m files.",
                           IntegrityScan.anyCount, IntegrityScan.anyFiles))
  ELSE addResult(results, "INTEGRITY", "PASS", Msg("No explicit any types found."))

\* the signatures of the first program's list that this SECRET_PATTERNS also holds
DoctrineSignatures == {1, 3, 4, 5, 7, 8, 9, 10}

\* allFiles.forEach of CHECK 2: a file whose read throws is skipped
RECURSIVE ScanSecurity(_, _)
ScanSecurity(fs, secretFiles) ==
  IF fs = <<>> THEN secretFiles
  ELSE IF Head(fs) \in unreadable THEN ScanSecurity(Tail(fs), secretFiles)
  ELSE ScanSecurity(Tail(fs),
                    IF files[Head(fs)].sigs \cap DoctrineSignatures # {}
                    THEN Append(secretFiles, Head(fs))
                    ELSE secretFiles)

SecurityScan ==
  ScanSecurity(globDoctrine({"ts", "tsx", "js", "jsx", "json", "env"},
                            {"node_modules", ".git"}, {PackageLock}),
               <<>>)

SecurityResult(results) ==
  IF Len(SecurityScan) > 0
  THEN addResult(results, "SECURITY", "WARN",
                 MsgCounts("Potential secrets detected in n files.", Len(SecurityScan), 0))
  ELSE addResult(results, "SECURITY", "PASS", Msg("No obvious secret patterns detected."))

\* the atoms [\w\-./]+ runs over: every atom but ':' and '@'
NameAtom(a) == a \notin {":", "@"}

\* index of the last atom of the run [\w\-./]+ that starts an image, 0 if none
RECURSIVE NameRun(_, _)
NameRun(image, k) ==
  IF k > Len(image) \/ ~NameAtom(image[k]) THEN k - 1
  ELSE NameRun(image, k + 1)

\* the atoms of Images that start with a digit
DigitLed == {"20", "5000"}

\* /FROM\s+[\w\-./]+:latest/i
hasLatest(lines) ==
  \E i \in 1..Len(fromImages(lines)) :
     LET image == fromImages(lines)[i]
         k     == NameRun(image, 1)
     IN k >= 1 /\ k + 2 <= Len(image) /\ image[k + 1] = ":" /\ image[k + 2] = "latest"

\* /FROM\s+[\w\-./]+:(?![0-9])/i
hasWeakTag(lines) ==
  \E i \in 1..Len(fromImages(lines)) :
     LET image == fromImages(lines)[i]
         k     == NameRun(image, 1)
     IN /\ k >= 1 /\ k + 1 <= Len(image) /\ image[k + 1] = ":"
        /\ (k + 2 > Len(image) \/ image[k + 2] \notin DigitLed)

\* /FROM\s+[\w\-./]+:alpine\b/i
hasAlpineOnly(lines) ==
  \E i \in 1..Len(fromImages(lines)) :
     LET image == fromImages(lines)[i]
         k     == NameRun(image, 1)
     IN k >= 1 /\ k + 2 <= Len(image) /\ image[k + 1] = ":" /\ image[k + 2] = "alpine"

\* /FROM\s+[\w\-./]+[\s\n]/i.test(dockerfile) && !dockerfile.includes(':'),
\* every line of the file ending in a line break
hasNoTag(lines) ==
  /\ \E i \in 1..Len(fromImages(lines)) :
        LET image == fromImages(lines)[i]
        IN Len(image) >= 1 /\ NameRun(image, 1) = Len(image)
  /\ \A l \in 1..Len(lines) : \A w \in 1..Len(lines[l]) :
        \A a \in 1..Len(lines[l][w]) : lines[l][w][a] # ":"

\* CHECK 3: no result without a Dockerfile, none when its read throws
InfraResult(results) ==
  IF dockerfile.exists /\ dockerfile.readable
  THEN IF \/ hasLatest(dockerfile.lines) \/ hasWeakTag(dockerfile.lines)
          \/ hasNoTag(dockerfile.lines) \/ hasAlpineOnly(dockerfile.lines)
       THEN addResult(results, "INFRA", "FAIL", Msg("Unpinned Docker image detected."))
       ELSE addResult(results, "INFRA", "PASS", Msg("Docker images appear pinned."))
  ELSE results

\* auditResults.filter(r => r.status === 'FAIL' || r.status === 'WARN').length
countViolations(results) ==
  Len(SelectSeq(results, LAMBDA r : r.status = "FAIL" \/ r.status = "WARN"))

\* auditResults.filter(r => r.status !== 'PASS').map(r => r.id)
brokenDoctrineIds ==
  LET broken == SelectSeq(auditResults, LAMBDA r : r.status # "PASS")
  IN [i \in 1..Len(broken) |-> broken[i].id]

InitDoctrineScript ==
  /\ isJson \in BOOLEAN
  /\ pc = "integrity"
  /\ auditResults = <<>>
  /\ violations = -1
  /\ telemetry = NoRequest
  /\ home = UsedHome
  /\ timer = -1
  /\ exitCode = -1
  /\ stdout = <<>>
  /\ emitted = <<>>
  /\ jsonReport = EmptyReport
  /\ failed = -1
  /\ code = <<>>
  /\ calls = <<>>

InitDoctrine == (InitTrees \/ InitDockerfiles) /\ InitDoctrineScript

CheckIntegrity ==
  /\ pc = "integrity"
  /\ auditResults' = IntegrityResult(auditResults)
  /\ pc' = "security"
  /\ UNCHANGED <<inputs, home, sanitizer, violations, jsonReport, stdout, emitted, failed,
                 telemetry, timer, exitCode>>

CheckSecurity ==
  /\ pc = "security"
  /\ auditResults' = SecurityResult(auditResults)
  /\ pc' = "infra"
  /\ UNCHANGED <<inputs, home, sanitizer, violations, jsonReport, stdout, emitted, failed,
                 telemetry, timer, exitCode>>

CheckInfra ==
  /\ pc = "infra"
  /\ auditResults' = InfraResult(auditResults)
  /\ pc' = "report"
  /\ UNCHANGED <<inputs, home, sanitizer, violations, jsonReport, stdout, emitted, failed,
                 telemetry, timer, exitCode>>

\* violations and isFailure, trackAudit inside its try/catch, setTimeout(..., 500)
FinalReport ==
  /\ pc = "report"
  /\ violations' = countViolations(auditResults)
  /\ \E uuid \in UUIDs :
        LET sent == trackAudit(IF countViolations(auditResults) > 0 THEN "FAIL" ELSE "PASS",
                               brokenDoctrineIds, uuid)
        IN telemetry' = sent.request /\ home' = sent.home
  /\ timer' = 500
  /\ pc' = "eventloop"
  /\ UNCHANGED <<inputs, sanitizer, auditResults, jsonReport, stdout, emitted, failed,
                 exitCode>>

\* the callback of the timer: the report is written and the process exits
ReportTimer ==
  /\ pc = "eventloop"
  /\ timer # -1
  /\ IF isJson
     THEN /\ emitted' = Append(emitted,
                 [status  |-> IF violations > 0 THEN "FAILED" ELSE "PASSED",
                  metrics |-> [violations |-> violations,
                               rules_evaluated |-> Len(auditResults)],
                  results |-> auditResults])
          /\ UNCHANGED stdout
     ELSE /\ stdout' = [i \in 1..Len(auditResults) |->
                          [icon |-> auditResults[i].status,
                           gate |-> auditResults[i].rule,
                           text |-> auditResults[i].message.text]]
                       \o <<Banner(IF violations > 0
                                   THEN "Project violates the StrictKit Baseline."
                                   ELSE "Project meets StrictKit standards.")>>
          /\ UNCHANGED emitted
  /\ exitCode' = (IF violations > 0 THEN 1 ELSE 0)
  /\ timer' = -1
  /\ pc' = "exited"
  /\ UNCHANGED <<inputs, home, sanitizer, doctrine, jsonReport, failed, telemetry>>

DoctrineNext ==
  \/ CheckIntegrity
  \/ CheckSecurity
  \/ CheckInfra
  \/ FinalReport
  \/ ReportTimer
  \/ TelemetrySettles

DoctrineSpec == InitDoctrine /\ [][DoctrineNext]_vars

\* --------------------------------------------- the sanitizer called alone
\* all texts of at most n characters of the alphabet A
TextsOver(A, n) == UNION {[1..k -> A] : k \in 0..n}

\* texts of slashes and stars: nested and adjacent comment delimiters
SlashStarTexts == TextsOver({"/", "*"}, MaxSlashStarLen)

\* texts of comment delimiters, colons and line breaks
CommentTexts == TextsOver({"/", "*", ":", "\n"}, MaxCommentLen)

\* the same texts followed by // and one more character on the same line
TrailingCommentTexts == {x \o <<"/", "/", "b">> : x \in CommentTexts}

\* texts of double and single quotes, backslashes and a plain character
QuoteTexts == TextsOver({"\"", "'", "\\", "x"}, MaxQuoteLen)

\* texts of backticks, double quotes, backslashes and line breaks
LiteralTexts == TextsOver({Backtick, "\"", "\\", "\n"}, MaxLiteralLen)

SanTexts ==
  SlashStarTexts \cup CommentTexts \cup TrailingCommentTexts
    \cup QuoteTexts \cup LiteralTexts

InitSan ==
  /\ code \in SanTexts
  /\ calls = <<>>
  /\ files = EmptyTree
  /\ unreadable = {}
  /\ dockerfile = NoDockerfile
  /\ lockfiles = {}
  /\ faults = {}
  /\ telemetryOff = TRUE
  /\ isJson = FALSE
  /\ pc = "sanitizer"
  /\ jsonReport = EmptyReport
  /\ stdout = <<>>
  /\ emitted = <<>>
  /\ failed = -1
  /\ telemetry = NoRequest
  /\ home = UsedHome
  /\ timer = -1
  /\ exitCode = -1
  /\ auditResults = <<>>
  /\ violations = -1

\* a caller passes the text to one function and goes on with what it returns
Call(fn, ret) ==
  /\ Len(calls) < MaxSanCalls
  /\ calls' = Append(calls, [fn |-> fn, arg |-> code, ret |-> ret])
  /\ code' = ret
  /\ UNCHANGED <<inputs, home, doctrine, pc, jsonReport, stdout, emitted, failed,
                 telemetry, timer, exitCode>>

CallStripComments == Call("stripComments", stripComments(code))

CallStripStrings == Call("stripStrings", stripStrings(code))

SanNext == CallStripComments \/ CallStripStrings

SanSpec == InitSan /\ [][SanNext]_vars

\* ------------------------------------------------- trackAudit called alone
InitTelemetry ==
  /\ home \in Homes
  /\ telemetryOff \in BOOLEAN
  /\ telemetry = NoRequest
  /\ files = EmptyTree
  /\ unreadable = {}
  /\ dockerfile = NoDockerfile
  /\ lockfiles = {}
  /\ faults = {}
  /\ isJson = FALSE
  /\ pc = "telemetry"
  /\ jsonReport = EmptyReport
  /\ stdout = <<>>
  /\ emitted = <<>>
  /\ failed = -1
  /\ timer = -1
  /\ exitCode = -1
  /\ code = <<>>
  /\ calls = <<>>
  /\ auditResults = <<>>
  /\ violations = -1

\* a caller reports a result and the rules broken, then waits on the event loop
CallTrackAudit ==
  /\ pc = "telemetry"
  /\ \E result \in {"passed", "failed"}, ruleIds \in SeqsUpTo(GateSet, 1), uuid \in UUIDs :
        LET sent == trackAudit(result, ruleIds, uuid)
        IN telemetry' = sent.request /\ home' = sent.home
  /\ pc' = "eventloop"
  /\ UNCHANGED <<inputs, sanitizer, doctrine, jsonReport, stdout, emitted, failed, timer,
                 exitCode>>

TelemetryNext == CallTrackAudit \/ TelemetrySettles

TelemetrySpec == InitTelemetry /\ [][TelemetryNext]_vars

\* ------------------------------------- the audit of one file with a call
\* texts in which console.log( meets quotes and comment marks
TextLogAfterSlashes == <<"'", "/", "/", "'", ";">> \o ConsoleLogWord \o <<"(", ")">>

TextLogBetweenQuotes ==
  <<"'", "\"", "'", ";">> \o ConsoleLogWord \o <<"(", ")", ";", "'", "\"", "'">>

TextLogBetweenStars ==
  <<"'", "/", "*", "'", ";">> \o ConsoleLogWord \o <<"(", ")", ";", "'", "*", "/", "'">>

TextLogQuoted == <<"\"">> \o ConsoleLogWord \o <<"(", ")", "\"">>

ConsoleTexts ==
  {TextClean, TextLog, TextCommented, TextLogQuoted,
   TextLogAfterSlashes, TextLogBetweenQuotes, TextLogBetweenStars}

InitConsole ==
  /\ files \in {[p \in {f} |-> [any |-> 0, sigs |-> {}, text |-> t]] :
                  f \in {PathList[3], PathList[5]}, t \in ConsoleTexts}
  /\ unreadable = {}
  /\ dockerfile = NoDockerfile
  /\ lockfiles = {"yarn.lock"}
  /\ faults = {}
  /\ telemetryOff \in BOOLEAN
  /\ InitScript

ConsoleSpec == InitConsole /\ [][Next]_vars

\* ------------------------------------------------------------------ claims
GatesDone == pc \in {"verdict", "output", "eventloop", "exited"}

Summary == jsonReport.summary

Results == jsonReport.results

HasStatus(st) == \E i \in 1..Len(Results) : Results[i].status = st

TallyHolds ==
  /\ Summary.total = Len(Results)
  /\ Summary.total = Summary.passed + Summary.failed + Summary.warnings

OneCounterUp ==
  /\ Summary.total' = Summary.total + 1
  /\ Len(Results') = Len(Results) + 1
  /\ LET st == Results'[Len(Results')].status
     IN /\ Summary.passed' = Summary.passed + (IF st = "PASS" THEN 1 ELSE 0)
        /\ Summary.failed' = Summary.failed + (IF st = "FAIL" THEN 1 ELSE 0)
        /\ Summary.warnings' = Summary.warnings + (IF st = "WARN" THEN 1 ELSE 0)

\* C1: after any sequence of audit calls the report has total = number of
\* results = passed + failed + warnings, and each call adds one to total and
\* one to exactly the counter of its status.
C1_AuditTally == []TallyHolds /\ [][jsonReport' # jsonReport => OneCounterUp]_vars

C1_Witness ==
  /\ Len(Results) = MaxCalls
  /\ Summary.passed >= 1 /\ Summary.failed >= 1 /\ Summary.warnings >= 1

GateThrows(g) ==
  CASE g = "NO_ANY"   -> NoAnyThrows
    [] g = "SECRETS"  -> SecretsThrows
    [] g = "DOCKER"   -> DockerThrows
    [] g = "CONSOLE"  -> ConsoleThrows
    [] g = "LOCKFILE" -> LockfileThrows

GateBody(g) ==
  CASE g = "NO_ANY"   -> NoAnyBody
    [] g = "SECRETS"  -> SecretsBody
    [] g = "DOCKER"   -> DockerBody
    [] g = "CONSOLE"  -> ConsoleBody
    [] g = "LOCKFILE" -> LockfileBody

\* C2: whatever set of gates throws, the report has exactly five findings,
\* one per gate; a gate that threw is WARN and every other gate has the
\* finding its try body computes from the project, whichever gates threw.
C2_ThrowingGateIsWarnOnly ==
  GatesDone =>
    /\ Len(Results) = 5
    /\ \A i \in 1..5 :
         /\ Results[i].gate = Gates[i]
         /\ GateThrows(Gates[i]) => Results[i].status = "WARN"
         /\ ~GateThrows(Gates[i]) => Results[i] = GateBody(Gates[i])

C2_Witness ==
  /\ pc = "exited"
  /\ Cardinality(faults) = 2
  /\ "CONSOLE" \in faults
  /\ HasStatus("FAIL") /\ HasStatus("PASS")

\* C3: the success field of the emitted report is (summary.failed = 0): true
\* when the findings are only PASS and WARN, false with at least one FAIL.
C3_SuccessIffNoFail ==
  \A k \in 1..Len(emitted) :
    /\ emitted[k].success = (emitted[k].summary.failed = 0)
    /\ emitted[k].success =
         (\A i \in 1..Len(emitted[k].results) : emitted[k].results[i].status # "FAIL")

C3_Witness ==
  /\ Len(emitted) = 1
  /\ emitted[1].success
  /\ emitted[1].summary.warnings >= 1
  /\ emitted[1].summary.passed >= 1

ExitCodeRight ==
  pc = "exited" =>
    /\ exitCode = (IF HasStatus("FAIL") THEN 1 ELSE 0)
    /\ \A k \in 1..Len(emitted) : (exitCode = 0) = emitted[k].success

\* C4: in JSON mode and in human mode the process eventually exits, with
\* code 0 when no finding is FAIL and 1 otherwise: code 0 iff success.
C4_ExitsWithVerdictCode == <>(pc = "exited") /\ []ExitCodeRight

C4_Witness == pc = "exited" /\ ~isJson /\ exitCode = 1 /\ HasStatus("WARN")

\* the candidate files of a gate that can be read
Readable(fs) == SelectSeq(fs, LAMBDA p : p \notin unreadable)

ReadableViolation(g) ==
  CASE g = "NO_ANY"  -> \E i \in 1..Len(Readable(tsFiles)) :
                           countAnyTypes(Readable(tsFiles)[i], files[Readable(tsFiles)[i]]) > 0
    [] g = "SECRETS" -> \E i \in 1..Len(Readable(codeFiles)) :
                           files[Readable(codeFiles)[i]].sigs # {}
    [] g = "CONSOLE" -> \E i \in 1..Len(Readable(jsFiles)) :
                           CountConsoleLog(stripStrings(stripComments(
                             files[Readable(jsFiles)[i]].text)), 1) > 0

\* C5: a failed read in NO_ANY, SECRETS or CONSOLE excludes only that file:
\* the verdict comes from the readable files, so a violation in another
\* file still yields FAIL.
C5_ReadFailureIsLocal ==
  GatesDone =>
    \A i \in {1, 2, 4} :
      (Gates[i] \notin faults /\ ReadableViolation(Gates[i]))
        => Results[i].status = "FAIL"

\* C6: the results are always in the order NO_ANY, SECRETS, DOCKER, CONSOLE,
\* LOCKFILE, whatever the outcome of each gate.
C6_FixedGateOrder ==
  /\ Len(Results) <= 5
  /\ \A i \in 1..Len(Results) : Results[i].gate = Gates[i]
  /\ GatesDone => [i \in 1..Len(Results) |-> Results[i].gate] = Gates

C6_Witness ==
  /\ pc = "exited"
  /\ HasStatus("FAIL") /\ HasStatus("PASS") /\ HasStatus("WARN")
  /\ faults # {}

\* the .ts/.tsx candidates of the tree, as a set
TsCandidates ==
  {p \in DOMAIN files : HasExt(p, {"ts", "tsx"}) /\ ~IgnoredByDefault(p)}

RECURSIVE SumAny(_)
SumAny(S) ==
  IF S = {} THEN 0
  ELSE LET p == CHOOSE q \in S : TRUE
       IN countAnyTypes(p, files[p]) + SumAny(S \ {p})

\* C7: when its scan completes, NO_ANY is FAIL if the sum of countAnyTypes
\* over the .ts/.tsx candidates is positive (the message gives the sum and
\* the number of files with a usage), WARN with no candidate, else PASS.
C7_NoAnyRule ==
  (Len(Results) >= 1 /\ ~NoAnyThrows) =>
    IF SumAny(TsCandidates) > 0
    THEN /\ Results[1].status = "FAIL"
         /\ Results[1].message.n = SumAny(TsCandidates)
         /\ Results[1].message.m =
              Cardinality({p \in TsCandidates : countAnyTypes(p, files[p]) > 0})
    ELSE IF TsCandidates = {} THEN Results[1].status = "WARN"
    ELSE Results[1].status = "PASS"

C7_Witness ==
  /\ Len(Results) >= 1
  /\ Results[1].status = "FAIL"
  /\ Results[1].message.n = 3
  /\ Results[1].message.m = 2

\* a name with a .test. or .spec. marker, or a test or __tests__ directory
TestDesignated(p) ==
  \/ \E i \in 1..Len(p.name) : i > 1 /\ i < Len(p.name) /\ p.name[i] \in {"test", "spec"}
  \/ \E i \in 1..Len(p.dirs) : p.dirs[i] = "test" \/ p.dirs[i] = "__tests__"

Offending ==
  {p \in DOMAIN files :
     /\ HasExt(p, {"ts", "tsx", "js", "jsx", "json"})
     /\ ~IgnoredByDefault(p)
     /\ ~TestDesignated(p)
     /\ files[p].sigs # {}}

HasDigest(image) == \E i \in 1..Len(image) : image[i] = "@"

NamePart(image) ==
  IF HasDigest(image)
  THEN SubSeq(image, 1, (CHOOSE i \in 1..Len(image) : image[i] = "@") - 1)
  ELSE image

\* the tag of a name[:tag]: what follows a ":" that no "/" follows, or "" if none
TagOf(name) ==
  IF Len(name) >= 2 /\ name[Len(name) - 1] = ":" THEN name[Len(name)] ELSE ""

FloatingTags == {"latest", "stable", "lts"}

WeakReference(image) ==
  /\ ~HasDigest(image)
  /\ (TagOf(NamePart(image)) = "" \/ TagOf(NamePart(image)) \in FloatingTags)

\* C9: DOCKER is WARN without a Dockerfile, FAIL if a FROM line's image has
\* no version tag, the tag latest or a floating alias (stable, lts), and
\* PASS when no reference is weak.
C9_DockerWeakRule ==
  (Len(Results) >= 3 /\ ~DockerThrows) =>
    IF ~dockerfile.exists THEN Results[3].status = "WARN"
    ELSE IF \E i \in 1..Len(fromImages(dockerfile.lines)) :
              WeakReference(fromImages(dockerfile.lines)[i])
    THEN Results[3].status = "FAIL"
    ELSE Results[3].status = "PASS"

DigestPinned(image) ==
  \E i \in 1..(Len(image) - 3) :
     /\ image[i] = "@" /\ image[i + 1] = "sha256" /\ image[i + 2] = ":"
     /\ i + 3 = Len(image)

AllDigestPinned ==
  /\ dockerfile.exists
  /\ dockerfile.readable
  /\ Len(fromImages(dockerfile.lines)) >= 1
  /\ \A i \in 1..Len(fromImages(dockerfile.lines)) :
        DigestPinned(fromImages(dockerfile.lines)[i])

\* C10: an image pinned by digest (name@sha256:hex, with or without a tag,
\* the tag latest included) is never weak, so a Dockerfile whose FROM lines
\* are all digest-pinned yields PASS.
C10_DigestPinnedPasses ==
  (Len(Results) >= 3 /\ "DOCKER" \notin faults /\ AllDigestPinned) =>
    /\ weakTags(dockerfile.lines) = <<>>
    /\ Results[3].status = "PASS"

C10_Witness ==
  /\ Len(Results) >= 3
  /\ "DOCKER" \notin faults
  /\ AllDigestPinned
  /\ \E i \in 1..Len(fromImages(dockerfile.lines)) :
        TagOf(NamePart(fromImages(dockerfile.lines)[i])) = "latest"

\* the non-test .ts/.tsx/.js/.jsx candidates of the tree, as a set
JsCandidates ==
  {p \in DOMAIN files :
     /\ HasExt(p, {"ts", "tsx", "js", "jsx"})
     /\ ~IgnoredByDefault(p)
     /\ ~TestDesignated(p)}

\* occurrences of console.log( left in a file once comments and strings are stripped
LogsIn(p) == CountConsoleLog(stripStrings(stripComments(files[p].text)), 1)

RECURSIVE SumLogs(_)
SumLogs(S) ==
  IF S = {} THEN 0
  ELSE LET p == CHOOSE q \in S : TRUE
       IN LogsIn(p) + SumLogs(S \ {p})

ConsoleCountRule ==
  IF SumLogs(JsCandidates) > 0
  THEN /\ Results[4].status = "FAIL"
       /\ Results[4].message.n = SumLogs(JsCandidates)
       /\ Results[4].message.m = Cardinality({p \in JsCandidates : LogsIn(p) > 0})
  ELSE Results[4].status = "PASS"

\* C11 as stated: CONSOLE is FAIL when the non-test candidates hold at least
\* one console.log( after stripping (the message gives the total and the
\* number of files with one), PASS otherwise, and it is never WARN.
C11_ConsoleNeverWarns ==
  Len(Results) >= 4 => (ConsoleCountRule /\ Results[4].status # "WARN")

\* the try block of GATE 4 throws: an exception of the glob or the scan, or a failed read
ConsoleScanFails == "CONSOLE" \in faults \/ JsCandidates \cap unreadable # {}

\* C11 amended: CONSOLE follows the count rule (FAIL on a positive total,
\* PASS on zero) whenever its scan completes, and it is WARN exactly when
\* its try block throws.
C11_ConsoleRule ==
  Len(Results) >= 4 =>
    /\ ~ConsoleScanFails => ConsoleCountRule
    /\ ConsoleScanFails <=> Results[4].status = "WARN"

C11_Witness ==
  /\ Len(Results) >= 4
  /\ ~ConsoleScanFails
  /\ Results[4].status = "FAIL"
  /\ Results[4].message.n = 3
  /\ Results[4].message.m = 2

\* the recognised lockfile names that exist at the project root
LockfilesPresent ==
  (IF PackageLock \in DOMAIN files THEN {"package-lock.json"} ELSE {})
    \cup (lockfiles \cap {"yarn.lock", "pnpm-lock.yaml", "bun.lockb"})

\* C12: for every subset of the four recognised lockfile names present at
\* the project root, LOCKFILE is PASS exactly when the subset is not empty
\* and FAIL when it is empty (the gate's check itself completing).
C12_LockfileRule ==
  (Len(Results) >= 5 /\ "LOCKFILE" \notin faults) =>
    /\ Results[5].status = "PASS" <=> LockfilesPresent # {}
    /\ LockfilesPresent = {} => Results[5].status = "FAIL"

C12_Witness ==
  /\ Len(Results) >= 5
  /\ "LOCKFILE" \notin faults
  /\ LockfilesPresent = {"bun.lockb"}
  /\ Results[5].status = "PASS"

\* ------------------------------------------ JavaScript's reading of a text
Quotes == {"\"", "'", Backtick}

\* the mode JavaScript is in after s, read from position i in mode m: "code",
\* "line" or "block" inside a comment, a quote character inside the literal
\* it opened, "broken" after a line break inside a quoted string
RECURSIVE LexMode(_, _, _)
LexMode(s, i, m) ==
  IF i > Len(s) \/ m = "broken" THEN m
  ELSE IF m = "code"
       THEN IF StartsAt(s, <<"/", "/">>, i) THEN LexMode(s, i + 2, "line")
            ELSE IF StartsAt(s, <<"/", "*">>, i) THEN LexMode(s, i + 2, "block")
            ELSE IF s[i] \in Quotes THEN LexMode(s, i + 1, s[i])
            ELSE LexMode(s, i + 1, "code")
  ELSE IF m = "line"
       THEN LexMode(s, i + 1, IF s[i] \in LineTerminators THEN "code" ELSE "line")
  ELSE IF m = "block"
       THEN IF StartsAt(s, <<"*", "/">>, i) THEN LexMode(s, i + 2, "code")
            ELSE LexMode(s, i + 1, "block")
  ELSE IF s[i] = "\\" THEN LexMode(s, i + 2, m)
  ELSE IF s[i] = m THEN LexMode(s, i + 1, "code")
  ELSE IF m # Backtick /\ s[i] \in LineTerminators THEN "broken"
  ELSE LexMode(s, i + 1, m)

\* no literal and no block comment of s is left open
WellTerminated(s) == LexMode(s, 1, "code") \in {"code", "line"}

\* C13: for every text with no unterminated literal or comment, calling
\* stripComments on the result of stripComments, or stripStrings on the
\* result of stripStrings, returns that result unchanged.
C13_Idempotent ==
  (Len(calls) = 2 /\ calls[1].fn = calls[2].fn /\ WellTerminated(calls[1].arg)) =>
    calls[2].ret = calls[1].ret

\* the text ends in // and one more character
EndsInSlashSlashB(t) ==
  Len(t) >= 3 /\ SubSeq(t, Len(t) - 2, Len(t)) = <<"/", "/", "b">>

\* C14: where JavaScript reads code (outside any comment), a // that comes
\* right after ':' is no comment start, so it stays in the result of
\* stripComments with the text after it, and a // that does not come right
\* after ':' is removed with the rest of its line.
C14_ColonGuardsSlashes ==
  \A c \in 1..Len(calls) :
    LET t   == calls[c].arg
        x   == SubSeq(t, 1, Len(t) - 3)
        ret == calls[c].ret
    IN (/\ c = 1
        /\ calls[c].fn = "stripComments"
        /\ EndsInSlashSlashB(t)
        /\ LexMode(x, 1, "code") = "code") =>
         IF x # <<>> /\ x[Len(x)] = ":"
         THEN /\ Len(ret) >= 4
              /\ SubSeq(ret, Len(ret) - 3, Len(ret)) = <<":", "/", "/", "b">>
         ELSE \A k \in 1..Len(ret) : ret[k] # "b"

\* index of the quote that closes a literal opened by q whose body starts at
\* k, as JavaScript reads it (a backslash escapes the next character, a
\* quoted string ends at no line break), or 0 when the literal is left open
RECURSIVE LiteralEnd(_, _, _)
LiteralEnd(s, q, k) ==
  IF k > Len(s) THEN 0
  ELSE IF s[k] = "\\" THEN LiteralEnd(s, q, k + 2)
  ELSE IF s[k] = q THEN k
  ELSE IF q # Backtick /\ s[k] \in LineTerminators THEN 0
  ELSE LiteralEnd(s, q, k + 1)

\* s with every terminated literal replaced by an empty literal: of the same
\* delimiter for quoted strings, of double quotes for a backtick literal
RECURSIVE EmptiedLiterals(_, _)
EmptiedLiterals(s, i) ==
  IF i > Len(s) THEN <<>>
  ELSE IF s[i] \in Quotes /\ LiteralEnd(s, s[i], i + 1) # 0
       THEN (IF s[i] = Backtick THEN <<"\"", "\"">> ELSE <<s[i], s[i]>>)
              \o EmptiedLiterals(s, LiteralEnd(s, s[i], i + 1) + 1)
       ELSE <<s[i]>> \o EmptiedLiterals(s, i + 1)

HasBacktick(s) == \E k \in 1..Len(s) : s[k] = Backtick

\* C15: in a text of terminated double- and single-quoted literals,
\* stripStrings replaces each literal by the empty literal of its delimiter,
\* a backslash-escaped quote not ending the literal, so that nothing of a
\* literal's content is left in the result.
C15_QuotedLiteralsEmptied ==
  \A c \in 1..Len(calls) :
    (/\ c = 1
     /\ calls[c].fn = "stripStrings"
     /\ ~HasBacktick(calls[c].arg)
     /\ WellTerminated(calls[c].arg)) =>
       calls[c].ret = EmptiedLiterals(calls[c].arg, 1)

HasQuotedString(s) == \E k \in 1..Len(s) : s[k] \in {"\"", "'"}

\* C16: stripStrings ends a backtick literal at the next backtick that no
\* backslash escapes: in a text of terminated backtick literals each literal,
\* escaped backticks included, is replaced whole by an empty literal.
C16_BacktickEndsUnescaped ==
  \A c \in 1..Len(calls) :
    (/\ c = 1
     /\ calls[c].fn = "stripStrings"
     /\ HasBacktick(calls[c].arg)
     /\ ~HasQuotedString(calls[c].arg)
     /\ WellTerminated(calls[c].arg)) =>
       calls[c].ret = EmptiedLiterals(calls[c].arg, 1)

LineBreaks(s) == Cardinality({k \in 1..Len(s) : s[k] \in LineTerminators})

\* C17 as stated: stripComments and stripStrings return a text with as many
\* line breaks as the text they were given.
C17_LineBreaksKept ==
  \A c \in 1..Len(calls) : LineBreaks(calls[c].ret) = LineBreaks(calls[c].arg)

\* a line break lies between a /* and a later */
BlockSpansLines(s) ==
  \E i, j, k \in 1..Len(s) :
     /\ i < j /\ j < k
     /\ StartsAt(s, <<"/", "*">>, i)
     /\ s[j] \in LineTerminators
     /\ StartsAt(s, <<"*", "/">>, k)

\* a line break lies between two quote characters
QuotesSpanLines(s) ==
  \E i, j, k \in 1..Len(s) :
     /\ i < j /\ j < k
     /\ s[i] \in Quotes
     /\ s[j] \in LineTerminators
     /\ s[k] \in Quotes

\* C17 amended: neither function ever adds a line break; stripComments keeps
\* the number of line breaks of a text in which no line break lies between
\* a /* and a later */, and stripStrings that of a text in which no line
\* break lies between two quote characters.
C17_LineBreaksRule ==
  \A c \in 1..Len(calls) :
    /\ LineBreaks(calls[c].ret) <= LineBreaks(calls[c].arg)
    /\ (calls[c].fn = "stripComments" /\ ~BlockSpansLines(calls[c].arg)) =>
         LineBreaks(calls[c].ret) = LineBreaks(calls[c].arg)
    /\ (calls[c].fn = "stripStrings" /\ ~QuotesSpanLines(calls[c].arg)) =>
         LineBreaks(calls[c].ret) = LineBreaks(calls[c].arg)

C17_Witness ==
  /\ Len(calls) = 2
  /\ calls[1].fn = "stripComments"
  /\ calls[2].fn = "stripStrings"
  /\ LineBreaks(calls[1].arg) >= 2
  /\ ~BlockSpansLines(calls[1].arg)
  /\ Len(calls[1].ret) < Len(calls[1].arg)
  /\ LineBreaks(calls[2].ret) = LineBreaks(calls[1].arg)

\* how many gates have the status st when the gates run in the order of the file
InFileOrder(st) == Cardinality({g \in GateSet : GateFinding(g).status = st})

\* C18: in whatever order the five gates are evaluated over the same
\* inputs, each gate yields the status and message it yields in the order
\* of the file, and the summary counts, success and the exit code are the
\* same.
C18_GatesCommute ==
  Len(Results) = Len(Gates) =>
    /\ \A g \in GateSet : \E i \in 1..Len(Results) : Results[i] = GateFinding(g)
    /\ Summary = [total    |-> Len(Gates),
                  passed   |-> InFileOrder("PASS"),
                  failed   |-> InFileOrder("FAIL"),
                  warnings |-> InFileOrder("WARN")]
    /\ \A k \in 1..Len(emitted) : emitted[k].success = (InFileOrder("FAIL") = 0)
    /\ pc = "exited" => exitCode = (IF InFileOrder("FAIL") > 0 THEN 1 ELSE 0)

C18_Witness ==
  /\ pc = "exited"
  /\ Len(Results) = Len(Gates)
  /\ Results[1].gate = "LOCKFILE"
  /\ Results[2].gate = "CONSOLE"
  /\ Results[5].gate = "DOCKER"
  /\ Summary.failed >= 2
  /\ Summary.warnings >= 1
  /\ Summary.passed >= 1

\* the number of FAIL findings of the report
FailFindings == Cardinality({i \in 1..Len(Results) : Results[i].status = "FAIL"})

\* the process has ended with the report and the exit code of its findings
EndsByFindings ==
  pc = "exited" =>
    /\ Len(Results) = Len(Gates)
    /\ exitCode = (IF FailFindings > 0 THEN 1 ELSE 0)
    /\ IF isJson
       THEN /\ Len(emitted) = 1
            /\ emitted[1].results = Results
            /\ emitted[1].success = (FailFindings = 0)
       ELSE /\ Len(stdout) = Len(Gates) + 1
            /\ stdout[Len(stdout)].text =
                 (IF FailFindings > 0 THEN "AUDIT FAILED" ELSE "AUDIT PASSED")

\* a step of the telemetry request leaves the report, the output and the exit alone
TelemetryStepIsSilent ==
  telemetry' # telemetry =>
    /\ jsonReport' = jsonReport
    /\ emitted' = emitted
    /\ stdout' = stdout
    /\ timer' = timer
    /\ exitCode' = exitCode

NoFailResult == \A i \in 1..Len(auditResults) : auditResults[i].status # "FAIL"

\* C20: a run of the doctrine-based audit in which no result is FAIL is
\* successful even when a result is WARN: the reported status is PASSED and
\* the exit code is 0.
C20_WarnOnlyRunSucceeds ==
  (pc = "exited" /\ NoFailResult) =>
    /\ exitCode = 0
    /\ \A k \in 1..Len(emitted) : emitted[k].status = "PASSED"
    /\ ~isJson => stdout[Len(stdout)].text = "Project meets StrictKit standards."

\* a dependency-lock file among the paths of the tree: the other lockfile
\* names (yarn.lock, pnpm-lock.yaml, bun.lockb) carry no scanned extension
DependencyLock(p) == p = PackageLock

SignaturesOnlyInLockfiles ==
  /\ \E p \in DOMAIN files : DependencyLock(p) /\ files[p].sigs # {}
  /\ \A p \in DOMAIN files : files[p].sigs # {} => DependencyLock(p)

\* C21: a credential signature that occurs only in package-lock.json (or
\* another dependency-lock file) never makes the SECRETS gate report FAIL.
C21_LockfilesNotScanned ==
  (Len(Results) >= 2 /\ SignaturesOnlyInLockfiles) => Results[2].status # "FAIL"

\* a step taken with STRICTKIT_TELEMETRY off: no request exists after it and
\* the home directory, with the list of fs calls made on it, is as before
OptedOutStepIsInert ==
  telemetryOff =>
    /\ home' = home
    /\ telemetry'.state \in {"idle", "off"}

\* C22: when STRICTKIT_TELEMETRY is 'off', trackAudit returns without any
\* effect: no network request is sent, and the anonymous-id directory and
\* file are neither tested, read, created nor written.
C22_OptOutHasNoEffect == [][OptedOutStepIsInert]_vars

C22_Witness ==
  /\ telemetryOff
  /\ telemetry.state = "off"
  /\ ~home.dir
  /\ home.ops = <<>>

\* positions of s at which JavaScript reads a call console.log( in code:
\* outside every comment and every string or template literal
CallSites(s) ==
  {k \in 1..Len(s) :
     /\ StartsAt(s, ConsoleLogWord, k)
     /\ (k = 1 \/ s[k - 1] \notin WordChars)
     /\ CallParen(s, k + Len(ConsoleLogWord)) # 0
     /\ LexMode(SubSeq(s, 1, k - 1), 1, "code") = "code"}

HasCallSite == \E p \in JsCandidates : CallSites(files[p].text) # {}

====
